---- MODULE Spec2Model ----
(***************************************************************************)
(* cmd-nsc-vpp (src/main.go): the network service client.                  *)
(*                                                                         *)
(*   Spec          main(): the transport error watcher, the per-service    *)
(*                 loop (monitor stream, resumption matching, Request),    *)
(*                 the final wait on the signal context and the deferred   *)
(*                 calls run when main unwinds.                            *)
(*   MatchSpec     the resumption matching loop of main() on every         *)
(*                 snapshot of up to MaxSnapshot entries.                  *)
(*   LivenessSpec  the liveness check handed to heal.WithLivenessCheck.    *)
(*                                                                         *)
(* Pointers are sequences of length at most one: Nil is the nil pointer    *)
(* and Ptr(x) points at x.  Durations are in milliseconds; ping.Timeout    *)
(* (a float64 of seconds) is kept in microseconds.                         *)
(***************************************************************************)
EXTENDS Integers, Sequences, FiniteSets, TLC

VARIABLES
    NetworkServices,       \* config.NetworkServices
    pc,                    \* where main() is
    i,                     \* the loop variable of main()'s service loop
    cancelledCtx,          \* the contexts cancelled themselves (cancel func, signal, timer)
    signalled,             \* a termination signal was delivered to signalCtx
    vppErrCh,              \* the channel returned by vpphelper.StartAndDialContext
    vppFailed,             \* vpp has reported an error on vppErrCh
    watcher,               \* the goroutine started by exitOnErrCh
    defers,                \* main()'s stack of deferred calls
    panicking,             \* main() is unwinding because of a run-time panic
    monitoredConnections,  \* event.Connections of this iteration: key -> *Connection
    request,               \* the NetworkServiceRequest of this iteration
    visited,               \* keys the range loop has been through
    received,              \* the snapshot as stream.Recv() delivered it
    recvErr,               \* stream.Recv() of this iteration returned an error
    selected,              \* keys whose entry the range loop took for the request
    established,           \* resp of every Request that returned without error
    closeLog,              \* every nsmClient.Close call made
    trace,                 \* the calls made for each service, in order
    failure,               \* the failures that reached a Fatalf in the service loop
    lpc,                   \* where the liveness check is
    now,                   \* the clock of the liveness check
    deadline,              \* deadlineCtx.Deadline(), Nil when it has none
    ctxErr,                \* deadlineCtx.Err() != nil
    timeout0,              \* timeout (time.Until(deadline)) as the check computed it
    msg,                   \* ping.Ping handed to every probe
    replyCount,            \* replyCount of the liveness check
    probe,                 \* the loop variable of the probe loop
    replies,               \* the reply of every probe issued (Nil: no reply)
    sent,                  \* msg.Timeout of every probe issued
    verdict                \* the value the liveness check returned

mainVars == <<NetworkServices, pc, i, cancelledCtx, signalled, vppErrCh, vppFailed,
              watcher, defers, panicking, monitoredConnections, request, visited,
              received, recvErr, selected, established, closeLog, trace, failure>>
livenessVars == <<lpc, now, deadline, ctxErr, timeout0, msg, replyCount, probe,
                  replies, sent, verdict>>
vars == <<mainVars, livenessVars>>

-----------------------------------------------------------------------------
(* Bounds *)

MaxServices == 2     \* len(config.NetworkServices) is at most this
MaxMonitored == 1    \* entries of a snapshot the monitor stream delivers in Spec
MaxSnapshot == 2     \* entries of a snapshot in MatchSpec
MaxReply == 2        \* reply.ReplyCount of one probe is at most this

-----------------------------------------------------------------------------
(* Values *)

Nil == <<>>
Ptr(x) == <<x>>
IsNil(p) == p = <<>>
Deref(p) == p[1]

Name == "cmd-nsc-vpp"
MEMIF == "MEMIF"
MechTypes == {"MEMIF", "KERNEL"}

\* id := fmt.Sprintf("%s-%d", config.Name, i)
ID(idx) == <<Name, idx>>

\* nsurl.NSURL(config.NetworkServices[idx]) of a URL with scheme t
URLAt(idx, t) == [Type |-> t, NetworkService |-> <<"ns", idx>>, Labels |-> <<"labels", idx>>]
URL(idx) == NetworkServices[idx + 1]
Mechanism(u) == [Cls |-> "LOCAL", Type |-> u.Type]

Configs ==
    UNION {{[j \in 1..n |-> URLAt(j - 1, types[j])] : types \in [1..n -> MechTypes]} :
           n \in 0..MaxServices}

-----------------------------------------------------------------------------
(* Connections and snapshots *)

Cursors == {0, 1, 2}

\* NewConnection with the Labels field left out of the literal
NewConnectionWithoutLabels(idx) ==
    [Id |-> ID(idx), NetworkService |-> URL(idx).NetworkService,
     Labels |-> Nil, Path |-> Nil, Mechanism |-> Nil]

\* &networkservice.Connection{Id: id, NetworkService: u.NetworkService(), Labels: u.Labels()}
NewConnection(idx) ==
    [Id |-> ID(idx), NetworkService |-> URL(idx).NetworkService,
     Labels |-> URL(idx).Labels, Path |-> Nil, Mechanism |-> Nil]

\* A connection the manager reports under key k: its own id, service and labels
MonitoredConnection(k, path, mech) ==
    [Id |-> <<"nsmgr", k>>, NetworkService |-> <<"ns", -1>>, Labels |-> <<"labels", -1>>,
     Path |-> path, Mechanism |-> mech]

SegmentLists(idx) == {<<>>, <<[Id |-> ID(idx)]>>, <<[Id |-> ID(idx + 1)]>>}
Paths(idx) ==
    {Nil} \cup {Ptr([Index |-> c, PathSegments |-> s]) : c \in Cursors, s \in SegmentLists(idx)}
Mechanisms == {Nil} \cup {Ptr([Type |-> t]) : t \in MechTypes}

\* The snapshot of m entries with the paths and mechanisms f gives: key k -> connection
SnapshotFrom(f) == [k \in DOMAIN f |-> MonitoredConnection(k, f[k][1], f[k][2])]
SnapshotShapes(m, idx) == [1..m -> Paths(idx) \X Mechanisms]

\* The entries the monitor stream delivers in Spec: one that can be resumed, one of
\* another client, one the manager is still setting up (no path yet), each with a
\* mechanism of either type.
StreamPaths(idx) ==
    {Nil, Ptr([Index |-> 1, PathSegments |-> <<[Id |-> ID(idx)]>>]),
          Ptr([Index |-> 1, PathSegments |-> <<[Id |-> ID(idx + 1)]>>])}
StreamShapes(m, idx) == [1..m -> StreamPaths(idx) \X {Ptr([Type |-> t]) : t \in MechTypes}]

\* Evaluating the condition of line 375 dereferences a nil pointer or indexes an
\* empty slice: path.Index, path.PathSegments[0], conn.Mechanism.Type, with && 
\* evaluated left to right.
Faults(conn, id) ==
    \/ IsNil(conn.Path)
    \/ /\ Deref(conn.Path).Index = 1
       /\ \/ Deref(conn.Path).PathSegments = <<>>
          \/ /\ Deref(conn.Path).PathSegments[1].Id = id
             /\ IsNil(conn.Mechanism)

\* Eligible with the third operand of the condition left out
EligibleIgnoringMechanism(conn, id, type) ==
    /\ ~Faults(conn, id)
    /\ Deref(conn.Path).Index = 1
    /\ Deref(conn.Path).PathSegments[1].Id = id

\* path.Index == 1 && path.PathSegments[0].Id == id && conn.Mechanism.Type == u.Mechanism().Type
Eligible(conn, id, type) ==
    /\ ~Faults(conn, id)
    /\ Deref(conn.Path).Index = 1
    /\ Deref(conn.Path).PathSegments[1].Id = id
    /\ Deref(conn.Mechanism).Type = type

\* request.Connection.Path.Index = 0; request.Connection.Id = id
Resumed(conn, id) ==
    [conn EXCEPT !.Path = Ptr([Deref(conn.Path) EXCEPT !.Index = 0]), !.Id = id]

\* AssignResumed with the two assignments made for every entry that has a path
AssignResumedEvery(snapshot, k, id) ==
    [j \in DOMAIN snapshot |->
        IF IsNil(snapshot[j].Path) THEN snapshot[j] ELSE Resumed(snapshot[j], id)]

\* request.Connection = conn: the request points at the entry of the snapshot itself
\* (no Clone()), so the two assignments that follow write into the snapshot.
AssignResumed(snapshot, k, id) == [snapshot EXCEPT ![k] = Resumed(snapshot[k], id)]

\* break
AfterHit == "request"

NewRef == <<"new">>
MonitoredRef(k) == <<"monitored", k>>

\* The connection request.Connection points at
ConnectionOf(req, snapshot, idx) ==
    IF req.Connection = NewRef THEN NewConnection(idx)
    ELSE snapshot[req.Connection[2]]

-----------------------------------------------------------------------------
(* Contexts and the transport error channel *)

\* ctx <- signalCtx <- {dialCtx, monitorCtx};  ctx <- closeCtx
Parent(c) ==
    CASE c = "signalCtx" -> "ctx"
      [] c = "dialCtx" -> "signalCtx"
      [] c = "monitorCtx" -> "signalCtx"
      [] c = "closeCtx" -> "ctx"
      [] OTHER -> "background"

RECURSIVE DoneIn(_, _)
DoneIn(c, cancelled) ==
    IF c = "background" THEN FALSE
    ELSE c \in cancelled \/ DoneIn(Parent(c), cancelled)
Done(c) == DoneIn(c, cancelledCtx)

Receivable(ch) == ch.buf > 0 \/ ch.closed
Receive(ch) == IF ch.buf > 0 THEN [ch EXCEPT !.buf = @ - 1] ELSE ch

Running == pc \notin {"done", "fatal", "crashed"}

-----------------------------------------------------------------------------
(* Deferred calls *)

NoResp == [svc |-> -1, Id |-> <<>>]
Deferred(kind) == [kind |-> kind, resp |-> NoResp]
\* defer func() { ...; _, _ = nsmClient.Close(closeCtx, resp) }(): resp is declared in
\* the loop body, so each closure holds the resp of its own iteration
DeferredClose(resp) == [kind |-> "close", resp |-> resp]

Push(stack, d) == Append(stack, d)
\* PopDeferred running the deferred calls first in, first out
PopFirst(stack) == [call |-> Head(stack), rest |-> Tail(stack)]

\* deferred calls run last in, first out
PopDeferred(stack) == [call |-> stack[Len(stack)], rest |-> SubSeq(stack, 1, Len(stack) - 1)]

\* resp, err := nsmClient.Request(ctx, request)
Resp(idx) == [svc |-> idx, Id |-> ID(idx)]

-----------------------------------------------------------------------------
(* main(): start-up *)

Fatal == "fatal"

Init0 ==
    /\ NetworkServices \in Configs
    /\ pc = "exitOnErrCh"
    /\ i = 0
    /\ cancelledCtx = {}
    /\ signalled = FALSE
    /\ vppErrCh = [buf |-> 0, closed |-> FALSE]
    /\ vppFailed = FALSE
    /\ watcher = "none"
    /\ defers = <<Deferred("cancel")>>
    /\ panicking = FALSE
    /\ monitoredConnections = <<>>
    /\ request = Nil
    /\ visited = {}
    /\ received = <<>>
    /\ recvErr = FALSE
    /\ selected = {}
    /\ established = <<>>
    /\ closeLog = <<>>
    /\ trace = <<>>
    /\ failure = Nil

LivenessIdle ==
    /\ lpc = "idle"
    /\ now = 0
    /\ deadline = Nil
    /\ ctxErr = FALSE
    /\ timeout0 = 0
    /\ msg = [Timeout |-> 0]
    /\ replyCount = 0
    /\ probe = 0
    /\ replies = <<>>
    /\ sent = <<>>
    /\ verdict = Nil

Init == Init0 /\ LivenessIdle

iterVars == <<monitoredConnections, request, visited, received, recvErr, selected>>
envVars == <<signalled, vppErrCh, vppFailed, watcher>>
logVars == <<established, closeLog, trace, failure>>

\* exitOnErrCh(ctx, cancel, vppErrCh), then defer func() { cancel(); <-vppErrCh }()
ExitOnErrCh ==
    /\ pc = "exitOnErrCh"
    /\ IF Receivable(vppErrCh)
       THEN /\ vppErrCh' = Receive(vppErrCh)
            /\ pc' = Fatal
            /\ UNCHANGED <<watcher, defers>>
       ELSE /\ watcher' = "waiting"
            /\ defers' = Push(defers, Deferred("cancelAndDrain"))
            /\ pc' = "notifyContext"
            /\ UNCHANGED vppErrCh
    /\ UNCHANGED <<NetworkServices, i, cancelledCtx, signalled, vppFailed, panicking,
                   iterVars, logVars, livenessVars>>

\* go func() { err := <-errCh; ...
WatcherReceive ==
    /\ Running
    /\ watcher = "waiting"
    /\ Receivable(vppErrCh)
    /\ vppErrCh' = Receive(vppErrCh)
    /\ watcher' = "received"
    /\ UNCHANGED <<NetworkServices, pc, i, cancelledCtx, signalled, vppFailed, defers,
                   panicking, iterVars, logVars, livenessVars>>

\* ... log.FromContext(ctx).Error(err); cancel() }()
WatcherCancel ==
    /\ Running
    /\ watcher = "received"
    /\ watcher' = "done"
    /\ cancelledCtx' = cancelledCtx \cup {"ctx"}
    /\ UNCHANGED <<NetworkServices, pc, i, signalled, vppErrCh, vppFailed, defers,
                   panicking, iterVars, logVars, livenessVars>>

\* vpp reports an error on the channel
VppError ==
    /\ Running
    /\ ~vppFailed
    /\ ~vppErrCh.closed
    /\ vppErrCh' = [vppErrCh EXCEPT !.buf = 1]
    /\ vppFailed' = TRUE
    /\ UNCHANGED <<NetworkServices, pc, i, cancelledCtx, signalled, watcher, defers,
                   panicking, iterVars, logVars, livenessVars>>

\* vpp has ended (after its error, or because ctx is done): the channel is closed
VppExit ==
    /\ Running
    /\ vppFailed \/ Done("ctx")
    /\ ~vppErrCh.closed
    /\ vppErrCh' = [vppErrCh EXCEPT !.closed = TRUE]
    /\ UNCHANGED <<NetworkServices, pc, i, cancelledCtx, signalled, vppFailed, watcher,
                   defers, panicking, iterVars, logVars, livenessVars>>

\* signalCtx, cancelSignalCtx := notifyContext(ctx); defer cancelSignalCtx()
\* dialCtx, cancelDial := context.WithTimeout(signalCtx, config.DialTimeout); defer cancelDial()
NotifyContext ==
    /\ pc = "notifyContext"
    /\ defers' = Push(Push(defers, Deferred("cancelSignalCtx")), Deferred("cancelDial"))
    /\ pc' = "dial"
    /\ UNCHANGED <<NetworkServices, i, cancelledCtx, envVars, panicking, iterVars,
                   logVars, livenessVars>>

\* One of os.Interrupt, SIGHUP, SIGTERM, SIGQUIT is delivered
Signal ==
    /\ Running
    /\ pc \notin {"exitOnErrCh", "notifyContext"}
    /\ ~signalled
    /\ "signalCtx" \notin cancelledCtx
    /\ signalled' = TRUE
    /\ cancelledCtx' = cancelledCtx \cup {"signalCtx"}
    /\ UNCHANGED <<NetworkServices, pc, i, vppErrCh, vppFailed, watcher, defers,
                   panicking, iterVars, logVars, livenessVars>>

\* cc, err := grpc.DialContext(dialCtx, ...)
Dial ==
    /\ pc = "dial"
    /\ \E ok \in BOOLEAN : pc' = IF ok THEN "loop" ELSE Fatal
    /\ UNCHANGED <<NetworkServices, i, cancelledCtx, envVars, defers, panicking,
                   iterVars, logVars, livenessVars>>

-----------------------------------------------------------------------------
(* main(): the service loop, lines 331-393 *)

Called(op) == Append(trace, <<op, i>>)
Failed(kind) == Ptr([svc |-> i, kind |-> kind])

\* AfterFatalf with the failure logged and the loop going on to the next service
SkipService(idx) == [pc |-> "loop", i |-> idx + 1]

\* A Fatalf of the service loop: logrus exits the process, no deferred call runs
AfterFatalf(idx) == [pc |-> Fatal, i |-> idx]

\* for i := 0; i < len(config.NetworkServices); i++ { ...
\*     monitorCtx, cancelMonitor := context.WithTimeout(signalCtx, config.RequestTimeout)
\*     defer cancelMonitor()
LoopHead ==
    /\ pc = "loop"
    /\ IF i < Len(NetworkServices)
       THEN /\ pc' = "open"
            /\ cancelledCtx' = cancelledCtx \ {"monitorCtx"}
            /\ defers' = Push(defers, Deferred("cancelMonitor"))
       ELSE /\ pc' = "wait"
            /\ UNCHANGED <<cancelledCtx, defers>>
    /\ monitoredConnections' = <<>>
    /\ request' = Nil
    /\ visited' = {}
    /\ received' = <<>>
    /\ recvErr' = FALSE
    /\ selected' = {}
    /\ UNCHANGED <<NetworkServices, i, envVars, panicking, logVars, livenessVars>>

\* The timer of monitorCtx (config.RequestTimeout) fires
MonitorTimeout ==
    /\ pc \in {"open", "recv"}
    /\ "monitorCtx" \notin cancelledCtx
    /\ cancelledCtx' = cancelledCtx \cup {"monitorCtx"}
    /\ UNCHANGED <<NetworkServices, pc, i, envVars, defers, panicking, iterVars,
                   logVars, livenessVars>>

\* stream, err := monitorClient.MonitorConnections(monitorCtx, ...)
MonitorConnections ==
    /\ pc = "open"
    /\ trace' = Called("open")
    /\ \E ok \in BOOLEAN :
         IF ok
         THEN pc' = "recv" /\ UNCHANGED <<i, failure>>
         ELSE /\ pc' = AfterFatalf(i).pc
              /\ i' = AfterFatalf(i).i
              /\ failure' = Failed("monitorConnections")
    /\ UNCHANGED <<NetworkServices, cancelledCtx, envVars, defers, panicking, iterVars,
                   established, closeLog, livenessVars>>

\* AfterRecvError with the error of stream.Recv() handed to Fatalf
AfterRecvErrorFatal == Fatal

\* if err != nil { logrus.Errorf("error from monitorConnection stream") }: main() goes on
\* to line 356
AfterRecvError == "mech"

\* CancelMonitor with the call of line 356 left out
CancelMonitorLeftOut(cancelled) == cancelled

\* cancelMonitor(), line 356
CancelMonitor(cancelled) == cancelled \cup {"monitorCtx"}

\* event, err := stream.Recv(); if err != nil { Errorf } else { monitoredConnections =
\* event.Connections }; cancelMonitor()
StreamRecv ==
    /\ pc = "recv"
    /\ trace' = Called("recv")
    /\ \/ /\ recvErr' = TRUE
          /\ pc' = AfterRecvError
          /\ UNCHANGED <<monitoredConnections, received>>
       \/ /\ ~Done("monitorCtx")
          /\ \E m \in 0..MaxMonitored : \E f \in StreamShapes(m, i) :
               /\ monitoredConnections' = SnapshotFrom(f)
               /\ received' = SnapshotFrom(f)
          /\ recvErr' = FALSE
          /\ pc' = "mech"
    /\ cancelledCtx' = CancelMonitor(cancelledCtx)
    /\ UNCHANGED <<NetworkServices, i, envVars, defers, panicking, request, visited,
                   selected, established, closeLog, failure, livenessVars>>

\* Supported with every mechanism type let through
SupportedAny(type) == TRUE

\* mech.Type != memif.MECHANISM is the Fatalf of line 360
Supported(type) == type = MEMIF

\* mech := u.Mechanism(); if mech.Type != memif.MECHANISM { Fatalf }
\* request := &networkservice.NetworkServiceRequest{...}
MechCheck ==
    /\ pc = "mech"
    /\ IF ~Supported(Mechanism(URL(i)).Type)
       THEN /\ pc' = AfterFatalf(i).pc
            /\ i' = AfterFatalf(i).i
            /\ failure' = Failed("mechanism")
            /\ UNCHANGED <<request, trace>>
       ELSE /\ request' = Ptr([Connection |-> NewRef,
                                MechanismPreferences |-> <<Mechanism(URL(i))>>])
            /\ trace' = Called("match")
            /\ pc' = "match"
            /\ UNCHANGED <<i, failure>>
    /\ UNCHANGED <<NetworkServices, cancelledCtx, envVars, defers, panicking,
                   monitoredConnections, visited, received, recvErr, selected,
                   established, closeLog, livenessVars>>

\* for _, conn := range monitoredConnections { ... }: one entry, in any order
RangeNext ==
    /\ pc = "match"
    /\ \E k \in (DOMAIN monitoredConnections) \ visited :
         LET conn == monitoredConnections[k]
             id == ID(i)
         IN  IF Faults(conn, id)
             THEN /\ pc' = "unwind"
                  /\ panicking' = TRUE
                  /\ UNCHANGED <<monitoredConnections, request, visited, selected>>
             ELSE IF Eligible(conn, id, Mechanism(URL(i)).Type)
             THEN /\ request' = Ptr([Deref(request) EXCEPT !.Connection = MonitoredRef(k)])
                  /\ monitoredConnections' = AssignResumed(monitoredConnections, k, id)
                  /\ selected' = selected \cup {k}
                  /\ visited' = visited \cup {k}
                  /\ pc' = AfterHit
                  /\ UNCHANGED panicking
             ELSE /\ visited' = visited \cup {k}
                  /\ UNCHANGED <<pc, panicking, monitoredConnections, request, selected>>
    /\ UNCHANGED <<NetworkServices, i, cancelledCtx, envVars, defers, received, recvErr,
                   logVars, livenessVars>>

\* the range loop has been through every entry
RangeDone ==
    /\ pc = "match"
    /\ visited = DOMAIN monitoredConnections
    /\ pc' = "request"
    /\ UNCHANGED <<NetworkServices, i, cancelledCtx, envVars, defers, panicking, iterVars,
                   logVars, livenessVars>>

\* resp, err := nsmClient.Request(ctx, request); if err != nil { Fatalf }
\* defer func() { ... nsmClient.Close(closeCtx, resp) }()
Request ==
    /\ pc = "request"
    /\ trace' = Called("request")
    /\ \/ /\ ~Done("ctx")
          /\ established' = Append(established, Resp(i))
          /\ defers' = Push(defers, DeferredClose(Resp(i)))
          /\ i' = i + 1
          /\ pc' = "loop"
          /\ UNCHANGED failure
       \/ /\ pc' = AfterFatalf(i).pc
          /\ i' = AfterFatalf(i).i
          /\ failure' = Failed("request")
          /\ UNCHANGED <<established, defers>>
    /\ UNCHANGED <<NetworkServices, cancelledCtx, envVars, panicking, iterVars, closeLog,
                   livenessVars>>

-----------------------------------------------------------------------------
(* main(): the final wait and the deferred calls *)

\* <-signalCtx.Done()
Wait ==
    /\ pc = "wait"
    /\ Done("signalCtx")
    /\ pc' = "unwind"
    /\ UNCHANGED <<NetworkServices, i, cancelledCtx, envVars, defers, panicking, iterVars,
                   logVars, livenessVars>>

\* closeCtx, cancelClose := context.WithTimeout(ctx, config.RequestTimeout)
\* defer cancelClose(); _, _ = nsmClient.Close(closeCtx, resp)
CloseCall(resp, ok) == [resp |-> resp, ctxDone |-> Done(Parent("closeCtx")), ok |-> ok]

RunDeferredClose ==
    /\ pc = "unwind"
    /\ defers # <<>>
    /\ PopDeferred(defers).call.kind = "close"
    /\ defers' = PopDeferred(defers).rest
    /\ \E ok \in BOOLEAN :
         closeLog' = Append(closeLog, CloseCall(PopDeferred(defers).call.resp, ok))
    /\ UNCHANGED <<NetworkServices, pc, i, cancelledCtx, envVars, panicking, iterVars,
                   established, trace, failure, livenessVars>>

\* cancel(), cancelSignalCtx(), cancelDial(), cancelMonitor()
Cancels(kind) ==
    CASE kind = "cancel" -> "ctx"
      [] kind = "cancelSignalCtx" -> "signalCtx"
      [] kind = "cancelDial" -> "dialCtx"
      [] kind = "cancelMonitor" -> "monitorCtx"

RunDeferredCancel ==
    /\ pc = "unwind"
    /\ defers # <<>>
    /\ PopDeferred(defers).call.kind \in
         {"cancel", "cancelSignalCtx", "cancelDial", "cancelMonitor"}
    /\ defers' = PopDeferred(defers).rest
    /\ cancelledCtx' = cancelledCtx \cup {Cancels(PopDeferred(defers).call.kind)}
    /\ UNCHANGED <<NetworkServices, pc, i, envVars, panicking, iterVars, logVars,
                   livenessVars>>

\* defer func() { cancel(); <-vppErrCh }(): the cancel
RunDeferredCancelAndDrain ==
    /\ pc = "unwind"
    /\ defers # <<>>
    /\ PopDeferred(defers).call.kind = "cancelAndDrain"
    /\ defers' = PopDeferred(defers).rest
    /\ cancelledCtx' = cancelledCtx \cup {"ctx"}
    /\ pc' = "drain"
    /\ UNCHANGED <<NetworkServices, i, envVars, panicking, iterVars, logVars,
                   livenessVars>>

\* defer func() { cancel(); <-vppErrCh }(): the receive
Drain ==
    /\ pc = "drain"
    /\ Receivable(vppErrCh)
    /\ vppErrCh' = Receive(vppErrCh)
    /\ pc' = "unwind"
    /\ UNCHANGED <<NetworkServices, i, cancelledCtx, signalled, vppFailed, watcher,
                   defers, panicking, iterVars, logVars, livenessVars>>

\* main() returns, or the panic ends the process, once no deferred call is left
Return ==
    /\ pc = "unwind"
    /\ defers = <<>>
    /\ pc' = IF panicking THEN "crashed" ELSE "done"
    /\ UNCHANGED <<NetworkServices, i, cancelledCtx, envVars, defers, panicking, iterVars,
                   logVars, livenessVars>>

Next ==
    \/ ExitOnErrCh \/ WatcherReceive \/ WatcherCancel \/ VppError \/ VppExit
    \/ NotifyContext \/ Signal \/ Dial
    \/ LoopHead \/ MonitorTimeout \/ MonitorConnections \/ StreamRecv \/ MechCheck
    \/ RangeNext \/ RangeDone \/ Request
    \/ Wait \/ RunDeferredClose \/ RunDeferredCancel \/ RunDeferredCancelAndDrain
    \/ Drain \/ Return

Spec == Init /\ [][Next]_vars

-----------------------------------------------------------------------------
(* MatchSpec: the range loop of lines 373-381, started on every snapshot.  Init is *)
(* main() at line 373 of the iteration of service idx, the services before it      *)
(* established and nothing cancelled but the monitor context (line 356).           *)

RECURSIVE TraceUpTo(_)
TraceUpTo(idx) ==
    IF idx = 0 THEN <<>>
    ELSE TraceUpTo(idx - 1) \o
         <<<<"open", idx - 1>>, <<"recv", idx - 1>>, <<"match", idx - 1>>, <<"request", idx - 1>>>>

RECURSIVE DefersUpTo(_)
DefersUpTo(idx) ==
    IF idx = 0
    THEN <<Deferred("cancel"), Deferred("cancelAndDrain"), Deferred("cancelSignalCtx"),
           Deferred("cancelDial")>>
    ELSE DefersUpTo(idx - 1) \o <<Deferred("cancelMonitor"), DeferredClose(Resp(idx - 1))>>

InitMatch ==
    /\ \E idx \in 0..(MaxServices - 1) :
         /\ i = idx
         /\ NetworkServices = [j \in 1..(idx + 1) |-> URLAt(j - 1, MEMIF)]
         /\ \E m \in 0..MaxSnapshot : \E f \in SnapshotShapes(m, idx) :
              monitoredConnections = SnapshotFrom(f)
         /\ established = [j \in 1..idx |-> Resp(j - 1)]
         /\ defers = Push(DefersUpTo(idx), Deferred("cancelMonitor"))
         /\ trace = TraceUpTo(idx) \o <<<<"open", idx>>, <<"recv", idx>>, <<"match", idx>>>>
    /\ received = monitoredConnections
    /\ recvErr = FALSE
    /\ request = Ptr([Connection |-> NewRef,
                      MechanismPreferences |-> <<Mechanism(URL(i))>>])
    /\ pc = "match"
    /\ cancelledCtx = {"monitorCtx"}
    /\ signalled = FALSE
    /\ vppErrCh = [buf |-> 0, closed |-> FALSE]
    /\ vppFailed = FALSE
    /\ watcher = "waiting"
    /\ panicking = FALSE
    /\ visited = {}
    /\ selected = {}
    /\ closeLog = <<>>
    /\ failure = Nil
    /\ LivenessIdle

NextMatch == RangeNext \/ RangeDone

MatchSpec == InitMatch /\ [][NextMatch]_vars

-----------------------------------------------------------------------------
(* LivenessSpec: the function handed to heal.WithLivenessCheck, lines 234-287.     *)
(* The connection it is called for has a destination address (line 247).  Init is  *)
(* the call, at time 0, while main() waits at line 395 with one service            *)
(* established.                                                                    *)

packetCount == 4
defaultTimeout == 1000

\* deadlineCtx.Deadline() of the call: none, or this long after the call
Deadlines == {4000, 10000}
\* how long one Ping call takes
PingDurations == {0, 2000, 5000}
\* what Ping returns besides its error: no reply, or a reply with its ReplyCount
Replies == {Nil} \cup {Ptr(c) : c \in 0..MaxReply}

\* deadline, ok := deadlineCtx.Deadline(); if !ok { deadline = time.Now().Add(defaultTimeout) }
\* timeout := time.Until(deadline)
TimeUntilDeadline(dl, t) == IF IsNil(dl) THEN defaultTimeout ELSE Deref(dl) - t

\* interval := timeout.Seconds() / float64(packetCount) * 0.7, in microseconds
Interval(timeout) == (timeout * 1000 * 7) \div (packetCount * 10)

\* ProbeTimeout with the interval derived again from the time left at each probe
ProbeTimeoutRederived(m, dl, t) == Interval(TimeUntilDeadline(dl, t))

\* ping.NewServiceClient(vppConn).Ping(deadlineCtx, &msg): msg.Timeout was set once,
\* at line 259, before the loop
ProbeTimeout(m, dl, t) == m.Timeout

\* CountOnExpiry with the reply of the last probe left out
CountOnExpiryWithoutReply(count, reply) == count

\* if reply != nil { replyCount += int(reply.ReplyCount) }, lines 268-273
CountOnExpiry(count, reply) == IF IsNil(reply) THEN count ELSE count + Deref(reply)

InitLiveness ==
    /\ NetworkServices = <<URLAt(0, MEMIF)>>
    /\ pc = "wait"
    /\ i = 1
    /\ cancelledCtx = {"monitorCtx"}
    /\ signalled = FALSE
    /\ vppErrCh = [buf |-> 0, closed |-> FALSE]
    /\ vppFailed = FALSE
    /\ watcher = "waiting"
    /\ defers = DefersUpTo(1)
    /\ panicking = FALSE
    /\ monitoredConnections = <<>>
    /\ request = Nil
    /\ visited = {}
    /\ received = <<>>
    /\ recvErr = FALSE
    /\ selected = {}
    /\ established = <<Resp(0)>>
    /\ closeLog = <<>>
    /\ trace = TraceUpTo(1)
    /\ failure = Nil
    /\ lpc = "start"
    /\ now = 0
    /\ deadline \in {Nil} \cup {Ptr(t) : t \in Deadlines}
    /\ ctxErr = FALSE
    /\ timeout0 = 0
    /\ msg = [Timeout |-> 0]
    /\ replyCount = 0
    /\ probe = 0
    /\ replies = <<>>
    /\ sent = <<>>
    /\ verdict = Nil

\* lines 238-261: timeout, interval, msg.Timeout = interval, replyCount := 0
LivenessStart ==
    /\ lpc = "start"
    /\ timeout0' = TimeUntilDeadline(deadline, now)
    /\ msg' = [Timeout |-> Interval(TimeUntilDeadline(deadline, now))]
    /\ replyCount' = 0
    /\ probe' = 0
    /\ lpc' = "ping"
    /\ UNCHANGED <<mainVars, now, deadline, ctxErr, replies, sent, verdict>>

\* One turn of the loop of lines 263-284: the Ping call returns after d, with or
\* without a reply; deadlineCtx.Err() is non-nil once the deadline has passed or the
\* context was cancelled.
Ping ==
    /\ lpc = "ping"
    /\ probe < packetCount
    /\ \E reply \in Replies, d \in PingDurations, cancelled \in BOOLEAN :
         /\ sent' = Append(sent, ProbeTimeout(msg, deadline, now))
         /\ replies' = Append(replies, reply)
         /\ now' = now + d
         /\ ctxErr' = (cancelled \/ (~IsNil(deadline) /\ now + d >= Deref(deadline)))
         /\ IF ctxErr'
            THEN /\ replyCount' = CountOnExpiry(replyCount, reply)
                 /\ verdict' = Ptr(CountOnExpiry(replyCount, reply) > 0)
                 /\ lpc' = "returned"
                 /\ UNCHANGED probe
            ELSE IF IsNil(reply)
            THEN \* replyCount += int(reply.ReplyCount) with reply == nil, line 283
                 /\ lpc' = "panicked"
                 /\ UNCHANGED <<replyCount, verdict, probe>>
            ELSE /\ replyCount' = replyCount + Deref(reply)
                 /\ probe' = probe + 1
                 /\ UNCHANGED <<lpc, verdict>>
    /\ UNCHANGED <<mainVars, deadline, timeout0, msg>>

\* i == packetCount: return replyCount > 0, line 286
LivenessReturn ==
    /\ lpc = "ping"
    /\ probe >= packetCount
    /\ verdict' = Ptr(replyCount > 0)
    /\ lpc' = "returned"
    /\ UNCHANGED <<mainVars, now, deadline, ctxErr, timeout0, msg, replyCount, probe,
                   replies, sent>>

NextLiveness == LivenessStart \/ Ping \/ LivenessReturn

LivenessSpec == InitLiveness /\ [][NextLiveness]_vars

-----------------------------------------------------------------------------
(* Properties of main(), checked under Spec *)

CloseCount(resp) == Cardinality({n \in 1..Len(closeLog) : closeLog[n].resp = resp})

\* C1: once the signal context has ended and the process has stopped, every
\* connection a Request returned has had exactly one Close call, never none and
\* never two.
C1_ExactlyOneClose ==
    (~Running /\ Done("signalCtx")) =>
        \A j \in 1..Len(established) : CloseCount(established[j]) = 1

\* C2: the services are established in configuration order s0, s1, ..., and the
\* n-th Close made is given the resp of the n-th last of them; when main() has
\* returned every one of them has been closed.
C2_ReverseOrder ==
    /\ \A j \in 1..Len(established) :
         established[j] = [svc |-> j - 1, Id |-> <<Name, j - 1>>]
    /\ Len(closeLog) <= Len(established)
    /\ \A n \in 1..Len(closeLog) :
         closeLog[n].resp = established[Len(established) + 1 - n]
    /\ pc = "done" => Len(closeLog) = Len(established)

C2_Witness ==
    /\ pc = "done"
    /\ Len(established) >= 2
    /\ closeLog[1].resp.svc = 1
    /\ closeLog[2].resp.svc = 0

FailingCall(kind) ==
    CASE kind = "monitorConnections" -> "open"
      [] kind = "mechanism" -> "recv"
      [] kind = "request" -> "request"

\* C3: after a monitor stream open failure, an unsupported mechanism type or a
\* failed Request for service s the process has exited: main() is at no other
\* place than the exit, the failing call is the last call made, and no call was
\* made for a service after s.
C3_FatalStopsLoop ==
    failure # Nil =>
        /\ pc = "fatal"
        /\ i = Deref(failure).svc
        /\ trace[Len(trace)] = <<FailingCall(Deref(failure).kind), Deref(failure).svc>>
        /\ \A n \in 1..Len(trace) : trace[n][2] <= Deref(failure).svc
        /\ Len(established) = Deref(failure).svc

C3_Witness ==
    /\ failure # Nil
    /\ Deref(failure).kind = "request"
    /\ Deref(failure).svc = 0
    /\ Len(NetworkServices) >= 2

-----------------------------------------------------------------------------
(* Properties of the resumption matching, checked under MatchSpec *)

\* The condition of line 375 on an entry as it was received
ResumableAsReceived(k) ==
    /\ ~IsNil(received[k].Path)
    /\ received[k].Path[1].Index = 1
    /\ Len(received[k].Path[1].PathSegments) >= 1
    /\ received[k].Path[1].PathSegments[1].Id = <<Name, i>>
    /\ ~IsNil(received[k].Mechanism)
    /\ received[k].Mechanism[1].Type = NetworkServices[i + 1].Type

\* C4: an entry is taken for the request only if, as received, its cursor is 1, its
\* segment 0 has the desired id and its mechanism type is the desired one; at most
\* one entry is taken, the scan ends with it, and the request then carries that
\* entry with its cursor set to 0 and its id set to the desired id.
C4_Selection ==
    /\ Cardinality(selected) <= 1
    /\ \A k \in selected :
         /\ ResumableAsReceived(k)
         /\ pc = "request"
         /\ request[1].Connection = <<"monitored", k>>
         /\ ConnectionOf(request[1], monitoredConnections, i) =
              [Id |-> <<Name, i>>,
               NetworkService |-> received[k].NetworkService,
               Labels |-> received[k].Labels,
               Path |-> <<[Index |-> 0,
                           PathSegments |-> received[k].Path[1].PathSegments]>>,
               Mechanism |-> received[k].Mechanism]

C4_Witness ==
    /\ pc = "request"
    /\ Cardinality(selected) = 1
    /\ visited = selected
    /\ Len(received) = 2
    /\ \A k \in 1..2 : ResumableAsReceived(k)

\* C5: when the snapshot is empty or none of its entries is eligible, the request
\* carries a connection built from the service alone: id "<name>-<index>", the
\* network service and the labels of the URL, no path, no mechanism, and the
\* mechanism of the URL as the only preference.
C5_FreshDescriptor ==
    (pc = "request" /\ \A k \in DOMAIN received : ~ResumableAsReceived(k)) =>
        /\ request[1].Connection = <<"new">>
        /\ ConnectionOf(request[1], monitoredConnections, i) =
              [Id |-> <<Name, i>>,
               NetworkService |-> NetworkServices[i + 1].NetworkService,
               Labels |-> NetworkServices[i + 1].Labels,
               Path |-> <<>>, Mechanism |-> <<>>]
        /\ request[1].MechanismPreferences =
              <<[Cls |-> "LOCAL", Type |-> NetworkServices[i + 1].Type]>>

C5_Witness ==
    /\ pc = "request"
    /\ i = 1
    /\ Len(received) = 2
    /\ \A k \in 1..2 : ~ResumableAsReceived(k)
    /\ visited = {1, 2}

\* C6 as stated: after matching every entry of the snapshot has the path and the
\* id it was received with.
C6_SnapshotUntouched ==
    \A k \in DOMAIN received :
        /\ monitoredConnections[k].Id = received[k].Id
        /\ monitoredConnections[k].Path = received[k].Path

\* C6 as amended: matching writes to the entry it takes and to no other; the entry
\* taken differs from what was received in its cursor (0) and its id (the desired
\* id) alone, and with no entry taken the snapshot is as it was received.
C6_OnlySelectedRewritten ==
    /\ DOMAIN monitoredConnections = DOMAIN received
    /\ \A k \in DOMAIN received :
         IF k \in selected
         THEN /\ monitoredConnections[k].Id = <<Name, i>>
              /\ monitoredConnections[k].Path[1].Index = 0
              /\ monitoredConnections[k].Path[1].PathSegments =
                   received[k].Path[1].PathSegments
              /\ monitoredConnections[k].Mechanism = received[k].Mechanism
              /\ monitoredConnections[k].NetworkService = received[k].NetworkService
              /\ monitoredConnections[k].Labels = received[k].Labels
         ELSE monitoredConnections[k] = received[k]

C6_Witness ==
    /\ pc = "request"
    /\ selected = {2}
    /\ visited = {1, 2}
    /\ monitoredConnections[2] # received[2]
    /\ ~IsNil(received[1].Path)

-----------------------------------------------------------------------------
(* Properties of the liveness check, checked under LivenessSpec *)

RECURSIVE SumReplies(_)
SumReplies(rs) ==
    IF rs = <<>> THEN 0
    ELSE (IF IsNil(Head(rs)) THEN 0 ELSE Head(rs)[1]) + SumReplies(Tail(rs))

LivenessEnded == lpc \in {"returned", "panicked"}

\* C7: never more than 4 probes are issued; a check that ends with the deadline
\* not expired has issued exactly 4 probes and returned (sum of the replies > 0).
C7_FourProbes ==
    /\ Len(sent) <= 4
    /\ (LivenessEnded /\ ~ctxErr) =>
         /\ Len(sent) = 4
         /\ verdict = <<SumReplies(replies) > 0>>

\* C8: when deadlineCtx.Err() is found non-nil after probe k the check has returned,
\* probe k is the last probe issued, and the verdict is (S > 0), S the sum of the
\* replies of probes 1..k, a probe without a reply counting nothing.
C8_EarlyExit ==
    ctxErr =>
        /\ lpc = "returned"
        /\ Len(sent) = probe + 1
        /\ Len(replies) = probe + 1
        /\ replyCount = SumReplies(replies)
        /\ verdict = <<SumReplies(replies) > 0>>

C8_Witness ==
    /\ ctxErr
    /\ Len(sent) = 2
    /\ replies[1] = <<0>>
    /\ replies[2] = <<1>>
    /\ verdict = <<TRUE>>

\* C9: a probe that returns no reply while the deadline has not expired counts as
\* zero replies and does not end the round: the check goes on to its 4 probes and
\* a boolean verdict.
C9_FailedProbeCountsZero ==
    (\E n \in 1..Len(replies) : IsNil(replies[n]) /\ ~(n = Len(replies) /\ ctxErr)) =>
        /\ lpc \in {"ping", "returned"}
        /\ replyCount = SumReplies(replies)
        /\ lpc = "returned" /\ ~ctxErr => Len(sent) = 4 /\ verdict \in {<<TRUE>>, <<FALSE>>}

\* C10: every probe is sent with the timeout (T/4)*0.7, T the time from the call to
\* the deadline, 1 second without a deadline: in microseconds 40 * timeout =
\* 7000 * T(ms), whatever time the probes before it took; T = 10 s gives 1.75 s.
C10_ProbeTimeout ==
    \A n \in 1..Len(sent) :
        /\ 40 * sent[n] = 7000 * (IF deadline = <<>> THEN 1000 ELSE deadline[1])
        /\ deadline = <<10000>> => sent[n] = 1750000

C10_Witness ==
    /\ Len(sent) = 4
    /\ deadline = <<10000>>
    /\ now >= 4000
    /\ sent[4] = 1750000

-----------------------------------------------------------------------------
(* The release of connections on every exit path *)

\* C11: whichever way the process has ended (main() returned after a termination
\* signal or a value on the transport error channel, or a Fatalf while handling a
\* later service), a Close call has been made for every connection a Request
\* returned.
C11_ReleaseOnEveryExit ==
    ~Running => \A j \in 1..Len(established) : CloseCount(established[j]) >= 1

\* C12: every Close call is handed a context that is not done when the call is made,
\* after a termination signal and after a transport error alike.
C12_CloseContextLive ==
    \A n \in 1..Len(closeLog) : ~closeLog[n].ctxDone

-----------------------------------------------------------------------------
(* Cancellation of the call in flight *)

\* C13: once a termination signal was delivered or the watcher has cancelled after a
\* transport error, the context of the call in flight is done: the monitor context
\* while the monitor stream is opened or read, and the context handed to Request
\* while Request runs.
C13_CancellationReachesCallInFlight ==
    (signalled \/ watcher = "done") =>
        /\ pc \in {"open", "recv"} => Done("monitorCtx")
        /\ pc = "request" => Done("ctx")

-----------------------------------------------------------------------------
(* The service loop, step by step *)

\* C14: when stream.Recv() has returned an error the process does not exit for it:
\* the snapshot is empty, no entry is taken, main() goes on through the mechanism
\* check and the matching to Request, the request names the fresh connection of the
\* service, and an exit that follows is the Fatalf of the mechanism check or of
\* Request.
C14_RecvErrorNotFatal ==
    recvErr =>
        /\ monitoredConnections = <<>>
        /\ selected = {}
        /\ ~panicking
        /\ pc \in {"mech", "match", "request", "loop", Fatal}
        /\ pc = Fatal => failure # Nil /\ Deref(failure).kind \in {"mechanism", "request"}
        /\ pc = "mech" /\ Supported(Mechanism(URL(i)).Type) => ENABLED MechCheck
        /\ pc = "match" => ENABLED RangeDone
        /\ pc = "request" =>
             /\ Deref(request).Connection = NewRef
             /\ ConnectionOf(Deref(request), monitoredConnections, i) = NewConnection(i)
             /\ ENABLED Request
        /\ pc = "loop" => trace[Len(trace)] = <<"request", i - 1>>

C14_Witness ==
    /\ recvErr
    /\ pc = "loop"
    /\ i = 1
    /\ established = <<Resp(0)>>
    /\ trace = <<<<"open", 0>>, <<"recv", 0>>, <<"match", 0>>, <<"request", 0>>>>

RECURSIVE CallsInOrder(_)
CallsInOrder(n) ==
    IF n = 0 THEN <<>>
    ELSE Append(CallsInOrder(n - 1),
                <<CASE (n - 1) % 4 = 0 -> "open"
                    [] (n - 1) % 4 = 1 -> "recv"
                    [] (n - 1) % 4 = 2 -> "match"
                    [] (n - 1) % 4 = 3 -> "request",
                  (n - 1) \div 4>>)

\* C15: the calls made are, in this order, open, one read, match, Request for
\* service 0, then the same for service 1, and so on; the monitor context is
\* cancelled from the read on; and the monitor stream of service s is opened only
\* when the Requests of the s services before it have all returned a connection.
C15_OneServiceAtATime ==
    /\ trace = CallsInOrder(Len(trace))
    /\ pc \in {"mech", "match", "request"} => "monitorCtx" \in cancelledCtx
    /\ \A n \in 1..Len(trace) :
         trace[n][1] = "open" =>
             /\ Len(established) >= trace[n][2]
             /\ \A s \in 0..(trace[n][2] - 1) : established[s + 1] = Resp(s)

C15_Witness ==
    /\ Len(trace) = 5
    /\ trace[5] = <<"open", 1>>
    /\ established = <<Resp(0)>>
    /\ pc = "recv"

\* C16: for a service whose url asks for a mechanism other than memif no matching
\* and no Request is ever made, and the process has exited at the mechanism check
\* with the snapshot it received untouched and no request built, whatever that
\* snapshot holds.
C16_UnsupportedMechanismFatal ==
    \A s \in 0..(Len(NetworkServices) - 1) :
        Mechanism(URLAt(s, NetworkServices[s + 1].Type)).Type # MEMIF =>
            /\ \A n \in 1..Len(trace) : trace[n] \notin {<<"match", s>>, <<"request", s>>}
            /\ Len(established) <= s
            /\ i = s => pc \notin {"match", "request"}
            /\ (i = s /\ pc \in {"open", "recv", "mech", Fatal}) =>
                   /\ request = Nil
                   /\ visited = {}
                   /\ selected = {}
                   /\ monitoredConnections = received
            /\ (i = s /\ trace # <<>> /\ trace[Len(trace)] = <<"recv", s>>) =>
                   \/ pc = "mech"
                   \/ pc = Fatal /\ failure = Ptr([svc |-> s, kind |-> "mechanism"])

C16_Witness ==
    /\ pc = Fatal
    /\ failure = Ptr([svc |-> 1, kind |-> "mechanism"])
    /\ established = <<Resp(0)>>
    /\ Len(received) = 1
    /\ Eligible(received[1], ID(1), Mechanism(URL(1)).Type)
    /\ monitoredConnections = received

-----------------------------------------------------------------------------
(* The transport error watcher *)

\* C17: once the watcher has taken a value from the transport error channel and
\* cancelled, the top-level context and the signal context are done, main()'s final
\* wait can end with no signal delivered, and the process ends through main()'s
\* teardown and no other way; and main() gets past the installation of the watcher
\* with a value already in the channel only by exiting there.
C17_TransportErrorStartsTeardown ==
    /\ watcher = "done" => Done("ctx") /\ Done("signalCtx")
    /\ (watcher = "done" /\ pc = "wait") => ENABLED Wait
    /\ (watcher = "done" /\ ~Running) => pc # Fatal
    /\ (watcher = "none" /\ pc # "exitOnErrCh") =>
           pc = Fatal /\ vppFailed /\ vppErrCh.buf = 0

-----------------------------------------------------------------------------
(* The teardown *)

\* C18: a Close call is made only once the signal context has ended: while the signal
\* context is live no Close has been made, and main() is at the final wait only with
\* the Request of every configured service returned.
C18_NoCloseWhileSignalCtxLive ==
    /\ ~Done("signalCtx") => closeLog = <<>>
    /\ pc = "wait" => Len(established) = Len(NetworkServices)

\* C19: the matching goes through any snapshot without a fault, also entries with no
\* path, with cursor 1 and no path segment, or with no mechanism: main() is never
\* unwinding a panic, and once every entry is visited or one is taken it is at
\* Request.
C19_MatchingNeverFaults ==
    /\ ~panicking
    /\ pc \in {"match", "request"}
    /\ (pc = "match" /\ visited = DOMAIN monitoredConnections) => ENABLED RangeDone

\* C20: once the signal context has ended main() is on its way to returning: either it
\* has returned, with every deferred call run, the top-level context cancelled and
\* every connection closed, or the process is running and a step can be taken.
C20_ShutdownTerminates ==
    Done("signalCtx") =>
        \/ /\ pc = "done"
           /\ defers = <<>>
           /\ Done("ctx")
           /\ Len(closeLog) = Len(established)
        \/ Running /\ ~panicking /\ ENABLED Next

====
